---- MODULE Spec2Model ----
(***************************************************************************)
(* QSR-Scraper: the Orchestrator's bounded-concurrency site pipeline       *)
(* (scraper_system/core/orchestrator.py) and the buffering relational sink *)
(* (scraper_system/plugins/storage/postgres_storage.py).                   *)
(*                                                                         *)
(* Scheduling is asyncio's: one event loop, tasks interleave only at an    *)
(* await.  Every action below is the code between two suspension points    *)
(* of one task.  A plugin call (fetch, parse, transform, save, close) is   *)
(* an external collaborator: its result is drawn from the results its      *)
(* contract and Python allow (a value, an empty value, a raised exception).*)
(***************************************************************************)
EXTENDS Integers, Sequences, FiniteSets, TLC

(***************************************************************************)
(* Bounds of the model.                                                    *)
(***************************************************************************)
NumSites == 2
MaxUrls == 2
MaxSinks == 2
MaxWorkers == 1
MaxIds == 3
MaxBatch == 2
MaxAccepted == 3
MaxRetries == 2
MaxNameLen == 1
MaxParsed == 2
MaxLines == 3
MaxAddressLen == 2
\* The detail URLs a parser finds (sitemap entries, location names).
MaxDetailUrls == 4
\* The values of the parser option max_concurrent_requests: 1..MaxConcurrent.
MaxConcurrent == 2
\* "batch_size = 50" of NandosParser, scaled down to the model's URL lists.
BatchSize == 3
\* "missing_count >= 20": the number of flushes a location may be missing
\* from before it is marked CLOSED, scaled down to the model's flushes.
MissingThreshold == 1
\* MemoryBuffer(max_size=100): the buffer length at which save flushes,
\* scaled down to the model's batch sizes.
BufferMaxSize == 2

\* global_settings.get("max_concurrent_workers", 5)
DefaultWorkers == 5

Sites == 1..NumSites

\* global_settings.max_concurrent_workers as configured: a negative value,
\* zero, or a positive number of workers.
WorkerValues == (0 - 1)..MaxWorkers

\* The "enabled" key of a site's configuration: true, false, or no key.
EnabledKeys == {"true", "false", "absent"}

\* The raw records a parser extracts from a page, and the lists parse may
\* return when it returns data: List[Dict[str, Any]], not empty.
RawRecords == [record : {"r1", "r2"}, fields : {"raw"}]
ParserOutputs == UNION {[1..n -> RawRecords] : n \in 1..MaxParsed}

\* The one list the parsers return in Spec, where the sites' data plays no
\* part.
OneOutput == {<<[record |-> "r1", fields |-> "raw"]>>}

\* The storage classes of the repository.
StorageClasses == {"PostgresStorage", "JSONStorage"}

\* The lists of sink instances create_storage_plugins can return.
StorageLists == UNION {[1..n -> StorageClasses] : n \in 0..MaxSinks}

\* What a plugin name of a site's configuration leads to in the factory:
\*   absent       no name is configured (site_config.get gives None)
\*   unloadable   _import_plugin_class returns None (ImportError or
\*                AttributeError)
\*   ctor_raises  the class is found and its constructor raises with the
\*                arguments the factory passes
\*   ok           the class is found and the constructor returns
PluginNames == {"absent", "unloadable", "ctor_raises", "ok"}

\* A parser name leads to one thing more: a class whose constructor
\* declares no fetcher parameter (and would return if called without one).
ParserNames == PluginNames \cup {"no_fetcher_param"}

\* An entry of the "storage" list is a name: its class and what it leads to.
StorageNames ==
    [class : StorageClasses, name : {"unloadable", "ctor_raises", "ok"}]

\* The "storage" lists of a site's configuration.
StorageNameLists == UNION {[1..n -> StorageNames] : n \in 0..MaxSinks}

\* A site's configuration: the names of its fetcher, parser, transformer
\* and sinks, the parser class (KfcParser or any other), the number of
\* start_urls (KfcParser ignores them).
SiteConfigs ==
    {c \in [fetcher : PluginNames, parser : ParserNames,
            parser_class : {"generic", "kfc"}, transformer : PluginNames,
            storage : StorageNameLists, start_urls : 0..MaxUrls] :
       c.parser_class = "kfc" => c.start_urls = 0}

\* The configurations with one sink that buffers and, for a parser other
\* than KfcParser, one entry URL.
SingleUrlConfigs ==
    {c \in [fetcher : PluginNames, parser : ParserNames,
            parser_class : {"generic", "kfc"}, transformer : {"absent", "ok"},
            storage : {<<[class |-> "PostgresStorage", name |-> "ok"]>>},
            start_urls : {0, 1}] :
       c.parser_class = "kfc" <=> c.start_urls = 0}

\* The configuration of a site whose task has not read it yet.
NoConfig ==
    [fetcher |-> "absent", parser |-> "absent", parser_class |-> "generic",
     transformer |-> "absent", storage |-> <<>>, start_urls |-> 0]

\* hasattr(storage, "close"): PostgresStorage defines close, JSONStorage
\* does not.
HasClose(cls) == cls = "PostgresStorage"

\* The values of a record's "source" field.
SourceNames == {"kfc", "nandos"}

\* The business identifiers.
Ids == 1..MaxIds

\* A sink configuration, by what _get_connection_string finds in it and in
\* DATABASE_URL: a connection string, or none.
StorageConfigs == {"connection_string", "none"}

\* A record as save sees it: its business_id, whether it has the address
\* fields _validate_location requires, and whether it has an optional field
\* (shopping_centre_name, say).
Records == [business_id : Ids, address : BOOLEAN, extra : BOOLEAN]

\* The data lists passed to save.
Batches == UNION {[1..n -> Records] : n \in 0..MaxBatch}

\* The characters of a name or an address: a lowercase letter, an uppercase
\* letter, a whitespace character and the separator generate_business_id
\* puts between the two.
Characters == {"a", "A", " ", "|"}

\* The names and addresses passed to generate_business_id.
NameStrings == UNION {[1..n -> Characters] : n \in 0..MaxNameLen}
AddressStrings == UNION {[1..n -> Characters] : n \in 0..MaxAddressLen}

\* The callers of the sink: one, as each sink instance belongs to one site
\* task, which awaits each save and close before the next.
Callers == {1}

\* The callers of a sink that is used by two tasks at once: one that
\* saves, one that closes.
SharedCallers == {1, 2}

VARIABLES
    max_concurrent_workers, \* Orchestrator.max_concurrent_workers
    enabled,                \* site -> its "enabled" key
    runState,               \* where run() is: init, gathering, returned, raised
    semaphore,              \* the value of run()'s asyncio.Semaphore
    task,                   \* site -> the state of its throttled_scrape task
    sink,                   \* one PostgresStorage instance
    call,                   \* caller -> the state of its call on the sink
    fetching,               \* one call of a fetcher's fetch
    naming,                 \* the calls of generate_business_id
    jsonfile,               \* one JSONStorage output file and a save on it
    parsing                 \* one parse call of NandosParser or ZeusParser

vars ==
    <<max_concurrent_workers, enabled, runState, semaphore, task, sink, call,
      fetching, naming, jsonfile, parsing>>

\* The orchestrator's part of the state, the sink's, and the plugins'.
orchestrator == <<max_concurrent_workers, enabled, runState, semaphore, task>>
storage == <<sink, call>>
plugin_state == <<sink, call, fetching, naming, jsonfile, parsing>>

(***************************************************************************)
(* One site task.  pc is the await the task is suspended at:               *)
(*   idle       run() has not reached the site                             *)
(*   skipped    the site is disabled, no task exists                       *)
(*   pending    waiting in "async with semaphore"                          *)
(*   loading    holds a permit, about to load plugins                      *)
(*   fetch, parse, transform, store, close   the awaits of _scrape_url     *)
(*   url_done   _scrape_url returned to the loop of _scrape_website        *)
(*   kfc_parse, kfc_transform, kfc_store     the awaits of the KfcParser   *)
(*              branch of _scrape_website                                  *)
(*   finishing  the body of throttled_scrape ended, permit still held      *)
(*   done       the task completed                                         *)
(*   cancelled  the task was cancelled with the event loop                 *)
(* The other fields are the task's locals, and four history fields:        *)
(*   config     the site's configuration, once the task has read it        *)
(*   failed_stage  the stage (fetch, parse, transform) that failed for the *)
(*              current entry URL or self-directed invocation, if any      *)
(*   fault      the worst failure of a plugin call of this site so far     *)
(*   stored     the number of save calls that returned normally            *)
(***************************************************************************)
NoTask ==
    [pc |-> "idle", config |-> NoConfig, parser |-> "none",
     transformer |-> FALSE,
     storage_plugins |-> <<>>, start_urls |-> 0, url |-> 0,
     saved |-> {}, closed |-> {}, dirty |-> {}, data_to_store |-> FALSE,
     failed_stage |-> "none", fault |-> "none", stored |-> 0,
     parsed_data |-> <<>>, transformed_data |-> <<>>, save_args |-> <<>>,
     log |-> <<>>, urls_running |-> {}, urls_returned |-> {}]

InsidePcs ==
    {"loading", "fetch", "parse", "transform", "store", "close", "url_done",
     "kfc_parse", "kfc_transform", "kfc_store", "finishing"}

\* The sites whose task is inside "async with semaphore".
Holders == {s \in Sites : task[s].pc \in InsidePcs}

SinkIds(t) == 1..Len(t.storage_plugins)

Closables(t) == {k \in SinkIds(t) : HasClose(t.storage_plugins[k])}

Worse(a, b) == IF a = "raised" \/ b = "raised" THEN "raised" ELSE b

\* No row of qsr_locations has the business_id.
NoRow ==
    [source |-> "none", status |-> "absent", missing_count |-> 0,
     updated_at |-> 0]

\* No flush has committed.
NoCommit == [source |-> "none", items |-> <<>>]

\* PostgresStorage.__init__: no engine, an empty buffer, a free lock, no
\* last_config attribute.  db is the qsr_locations table, by business_id;
\* accepted, accepted_ids and written are history: per source, how many
\* records save added to the buffer, their identifiers, and how many a
\* committed flush has upserted.  table is qsr_locations with the columns
\* the flush maintains: business_id (the primary key) -> source, status,
\* missing_count, updated_at.  History of the commits: last_commit is the
\* source and items of the latest committed flush, repeated tells that the
\* commit before it had the same source and items, before is the table as
\* the latest commit found it.  mutation is the latest change of the
\* memory buffer: the caller that made it and the holder of the lock at
\* that moment (0: the lock was free).  closes counts the close() calls
\* that returned, up to two; reopened tells that save has added records
\* to the buffer after a close() returned.  attempt is, per source, what
\* the latest _flush_buffer call for it found: the source's buffer and the
\* number of its upserts committed so far.
NewSink ==
    [memory_buffer |-> [src \in SourceNames |-> <<>>],
     last_config |-> "unset", is_initialized |-> FALSE, engine |-> FALSE,
     lock |-> 0, mutation |-> [by |-> 0, holder |-> 0], db |-> {},
     closes |-> 0, reopened |-> FALSE,
     attempt |-> [src \in SourceNames |-> [buffer |-> <<>>, written |-> 0]],
     table |-> [id \in Ids |-> NoRow],
     before |-> [id \in Ids |-> NoRow],
     last_commit |-> NoCommit, repeated |-> FALSE,
     accepted |-> [src \in SourceNames |-> 0],
     accepted_ids |-> [src \in SourceNames |-> {}],
     written |-> [src \in SourceNames |-> 0]]

\* A caller between calls.  returned is the call that returned last, failed
\* the sources whose flush failed during it.
IdleCall ==
    [pc |-> "idle", op |-> "none", source |-> "none", items |-> <<>>,
     config |-> "none", todo |-> {}, failed |-> {}, returned |-> "none"]

\* No fetch call has been made.  History of a call: requests counts the
\* attempts it has started, outcome is how the latest one ended,
\* retried_after the outcomes after which the loop made another attempt.
NoFetch ==
    [pc |-> "idle", fetcher |-> "none", use_proxy |-> FALSE,
     credentials |-> "missing", retry_delay |-> "number", max_retries |-> 0,
     retry_count |-> 0, result |-> "none", requests |-> 0,
     outcome |-> "none", retried_after |-> {}]

\* generate_business_id has not been called.
NoId ==
    [copy |-> "none", name |-> <<>>, address |-> <<>>,
     id |-> [algorithm |-> "none", hexdigits |-> 0, message |-> <<>>]]

NoNaming == [last |-> NoId, previous |-> NoId]

\* An output file that does not exist yet, and no save in progress.  lines
\* is the file's content; before is the content the running or latest save
\* found, data its argument, next the position of the item it writes next.
NewFile ==
    [pc |-> "idle", lines |-> <<>>, before |-> <<>>, data |-> <<>>,
     next |-> 0]

\* No parse call has been made.  detail is the state of each detail URL's
\* coroutine: none (no such URL), queued (in a later batch), ready (in the
\* gather of the running batch, not started or waiting for the semaphore),
\* fetching (its fetcher.fetch is awaited), sleeping (NandosParser's delay
\* after a fetch, inside the semaphore), done.  semaphore is the value of
\* NandosParser's asyncio.Semaphore.  History: attempted are the URLs whose
\* fetch was started, peak the largest number of fetches that were in
\* flight together.
DetailUrls == 1..MaxDetailUrls

NoParse ==
    [pc |-> "idle", parser |-> "none", max_concurrent |-> 0, urls |-> 0,
     semaphore |-> 0, detail |-> [u \in DetailUrls |-> "none"],
     batch_end |-> 0, attempted |-> {}, peak |-> 0]

StorageInit ==
    /\ sink = NewSink
    /\ call = [c \in SharedCallers |-> IdleCall]
    /\ fetching = NoFetch
    /\ naming = NoNaming
    /\ jsonfile = NewFile
    /\ parsing = NoParse

Init ==
    /\ max_concurrent_workers \in WorkerValues
    /\ enabled \in [Sites -> EnabledKeys]
    /\ runState = "init"
    /\ semaphore = 0
    /\ task = [s \in Sites |-> NoTask]
    /\ StorageInit


(***************************************************************************)
(* Orchestrator.run and throttled_scrape.                                  *)
(***************************************************************************)

\* Variant: the default of the "enabled" key taken as False.
IsEnabledDefaultFalse(s) == enabled[s] = "true"

\* site_config.get("enabled", True): a site with no key is enabled.
IsEnabled(s) == enabled[s] # "false"

\* A step of site s alone: its task becomes t, run() and the semaphore are
\* not touched.
\* _scrape_url has returned or raised once the task is back in the loop of
\* _scrape_website or past it.
UrlReturns(t) ==
    IF t.pc \in {"url_done", "finishing"}
    THEN [t EXCEPT !.urls_returned = @ \cup t.urls_running,
                   !.urls_running = {}]
    ELSE t

StepTo(s, t) ==
    /\ task' = [task EXCEPT ![s] = UrlReturns(t)]
    /\ UNCHANGED <<runState, semaphore>>

\* Variant: throttled_scrape without its "except Exception".  The exception
\* ends the task (the permit is given back by "async with"), the gather of
\* run() re-raises it, run() raises, and the tasks still unfinished are
\* cancelled when the event loop shuts down.
ExceptionEscapes(s, t) ==
    /\ task' = [u \in Sites |->
                 IF u = s
                 THEN [NoTask EXCEPT !.pc = "done", !.fault = t.fault]
                 ELSE IF task[u].pc \in {"done", "skipped"}
                      THEN task[u]
                      ELSE [task[u] EXCEPT !.pc = "cancelled"]]
    /\ semaphore' = semaphore + 1
    /\ runState' = "raised"

\* "except Exception" of throttled_scrape: an exception that left
\* _scrape_website is logged, the task goes on to its finally clause.
ExceptionInSite(s, t) ==
    StepTo(s, [t EXCEPT !.pc = "finishing"])

\* Variant: a permit test that is off by one.
SemaphoreFreeOffByOne == semaphore >= 0

\* asyncio.Semaphore.acquire returns at once only while the value is
\* positive.
SemaphoreFree == semaphore > 0

\* Variant: the permit is not given back.
ReleaseForgotten == semaphore' = semaphore

\* Leaving "async with semaphore": the permit is given back.
ReleasePermit == semaphore' = semaphore + 1

\* Variant: waiting for the first completed task only.
GatherFirstCompleted == \E s \in Sites : task[s].pc = "done"

\* asyncio.gather(*website_tasks) returns when every task has completed.
GatherDone == \A s \in Sites : task[s].pc \in {"done", "skipped"}

\* run() up to its gather: the semaphore is made (asyncio.Semaphore raises
\* ValueError for a negative value), every enabled site gets a task.
Run ==
    /\ runState = "init"
    /\ IF max_concurrent_workers < 0
       THEN /\ runState' = "raised"
            /\ UNCHANGED <<semaphore, task>>
       ELSE /\ semaphore' = max_concurrent_workers
            /\ task' = [s \in Sites |->
                         [NoTask EXCEPT !.pc = IF IsEnabled(s) THEN "pending"
                                                               ELSE "skipped"]]
            /\ runState' = IF \E s \in Sites : IsEnabled(s) THEN "gathering"
                                                            ELSE "returned"
    /\ UNCHANGED <<plugin_state, max_concurrent_workers, enabled>>

\* "async with semaphore" entered.
Acquire(s) ==
    /\ runState = "gathering"
    /\ task[s].pc = "pending"
    /\ SemaphoreFree
    /\ semaphore' = semaphore - 1
    /\ task' = [task EXCEPT ![s].pc = "loading"]
    /\ UNCHANGED <<plugin_state, max_concurrent_workers, enabled, runState>>

(***************************************************************************)
(* PluginFactory.  An instance is TRUE, None is FALSE.                     *)
(***************************************************************************)

\* create_fetcher: an instance, or None when no name is configured, the
\* class cannot be imported or the constructor raises.
create_fetcher(c) == c.fetcher = "ok"

\* create_parser: parser_class(fetcher=fetcher), always with the keyword; a
\* constructor that declares no fetcher parameter raises TypeError, which
\* is caught like every constructor exception, and None is returned.
create_parser(c, fetcher) == c.parser = "ok"

\* create_transformer: an instance, or None when no name is configured,
\* and also None when the class cannot be imported or the constructor
\* raises.
create_transformer(c) == c.transformer = "ok"

\* Variant: a sink that fails ends the list.
RECURSIVE create_storage_plugins_until_failure(_)
create_storage_plugins_until_failure(names) ==
    IF names = <<>> \/ Head(names).name # "ok"
    THEN <<>>
    ELSE <<Head(names).class>>
           \o create_storage_plugins_until_failure(Tail(names))

\* create_storage_plugins: the loop over the names appends an instance of
\* each class that is imported and constructed, and skips the others.
RECURSIVE create_storage_plugins(_)
create_storage_plugins(names) ==
    IF names = <<>>
    THEN <<>>
    ELSE IF Head(names).name = "ok"
         THEN <<Head(names).class>> \o create_storage_plugins(Tail(names))
         ELSE create_storage_plugins(Tail(names))

\* Variant: a site without fetcher or parser is run all the same.
create_plugins_for_site_unchecked(c) ==
    [raised |-> FALSE,
     transformer |-> create_transformer(c),
     storage_plugins |-> create_storage_plugins(c.storage)]

\* create_plugins_for_site: ValueError when the fetcher or the parser is
\* None; the transformer (None or not) and the sinks are returned as
\* created.
create_plugins_for_site(c) ==
    IF ~create_fetcher(c) \/ ~create_parser(c, create_fetcher(c))
    THEN [raised |-> TRUE, transformer |-> FALSE, storage_plugins |-> <<>>]
    ELSE [raised |-> FALSE,
          transformer |-> create_transformer(c),
          storage_plugins |-> create_storage_plugins(c.storage)]

\* _load_and_validate_plugins returned None: create_plugins_for_site raised
\* because no fetcher or no parser could be created.
LoadPluginsFail(s, configs) ==
    /\ task[s].pc = "loading"
    /\ \E c \in configs :
         /\ create_plugins_for_site(c).raised
         /\ StepTo(s, [task[s] EXCEPT !.pc = "finishing", !.fault = "load",
                                      !.config = c])
    /\ UNCHANGED <<plugin_state, max_concurrent_workers, enabled>>

\* The events of the log of one _scrape_url call (or of the KfcParser
\* branch): a plugin call is made, a plugin call has returned or raised.
\* sink is the position of the sink in storage_plugins, 0 for the stages
\* that are not sink calls.
CallEvent(stage, k) == [stage |-> stage, ev |-> "call", sink |-> k]
ReturnEvent(stage, k) == [stage |-> stage, ev |-> "return", sink |-> k]

\* The call of _scrape_url for the URL at position u of start_urls.
ScrapeUrl(t, u) ==
    [t EXCEPT !.pc = "fetch", !.url = u,
              !.saved = {}, !.closed = {},
              !.data_to_store = FALSE,
              !.failed_stage = "none",
              !.parsed_data = <<>>, !.transformed_data = <<>>,
              !.save_args = <<>>,
              !.log = <<CallEvent("fetch", 0)>>,
              !.urls_running = @ \cup {u}]

\* Plugins loaded, _scrape_website entered and run to its first await: the
\* KfcParser branch, or the first entry URL's fetch, or the end when no
\* start URL is configured.
LoadPlugins(s, configs) ==
    /\ task[s].pc = "loading"
    /\ \E c \in configs :
         LET plugins == create_plugins_for_site(c)
             t == [task[s] EXCEPT !.config = c,
                                  !.parser = c.parser_class,
                                  !.transformer = plugins.transformer,
                                  !.storage_plugins = plugins.storage_plugins,
                                  !.start_urls = c.start_urls]
         IN  /\ ~plugins.raised
             /\ IF c.parser_class = "kfc"
                THEN StepTo(s, [t EXCEPT !.pc = "kfc_parse",
                                         !.log = <<CallEvent("parse", 0)>>])
                ELSE IF c.start_urls = 0
                     THEN StepTo(s, [t EXCEPT !.pc = "finishing"])
                     ELSE StepTo(s, ScrapeUrl(t, 1))
    /\ UNCHANGED <<plugin_state, max_concurrent_workers, enabled>>

(***************************************************************************)
(* Orchestrator._scrape_url.                                               *)
(***************************************************************************)

Called(t, stage) == [t EXCEPT !.log = Append(@, CallEvent(stage, 0))]
Returned(t, stage) == [t EXCEPT !.log = Append(@, ReturnEvent(stage, 0))]

\* "for storage in storage_plugins: store_tasks.append(ensure_future(
\* storage.save(...)))": one save call per sink, in list order.
SaveCalls(t) == [k \in 1..Len(t.storage_plugins) |-> CallEvent("save", k)]

\* "for storage in storage_plugins: if hasattr(storage, 'close') ...":
\* one close call per sink that exposes close, in list order.
CloseCalls(t) ==
    LET ids == [k \in 1..Len(t.storage_plugins) |-> k]
        Test(k) == HasClose(t.storage_plugins[k])
        sel == SelectSeq(ids, Test)
    IN  [i \in 1..Len(sel) |-> CallEvent("close", sel[i])]

\* What a transformer makes of a raw record: the record with the normalized
\* fields (parsed address, business_id) in place of the raw ones.
Transformed(r) == [r EXCEPT !.fields = "normalized"]

\* The lists transform may return for parsed_data when it returns data: the
\* transformed records of some of the raw ones (a transformer skips the
\* records it cannot process), in their order.
TransformerOutputs(parsed) ==
    UNION {{[i \in 1..n |-> Transformed(parsed[f[i]])] :
               f \in {g \in [1..n -> 1..Len(parsed)] :
                         \A i \in 1..(n - 1) : g[i] < g[i + 1]}} :
           n \in 1..Len(parsed)}

\* Variant: the list handed to the sinks is a copy with fields added.
DataToStoreStamped(t) ==
    [i \in 1..Len(t.parsed_data) |-> Transformed(t.parsed_data[i])]

\* "data_to_store = parsed_data", replaced by transformed_data when a
\* transformer exists.
DataToStore(t) ==
    IF t.transformer THEN t.transformed_data ELSE t.parsed_data

\* data_to_store is not empty: the save tasks are made, each with
\* data_to_store as its argument; with no sink there is nothing to await
\* and _scrape_url returns.
BeginStore(t) ==
    LET u == [t EXCEPT !.data_to_store = TRUE,
                       !.save_args = [k \in SinkIds(t) |-> <<DataToStore(t)>>],
                       !.log = @ \o SaveCalls(t)]
    IN  IF Len(t.storage_plugins) = 0
        THEN [u EXCEPT !.pc = "url_done"]
        ELSE [u EXCEPT !.pc = "store"]

\* Variant: the gather of the save tasks returns with the first result.
SavesAwaitedFirstCompleted(t) == t.saved # {}

\* "await asyncio.gather(*store_tasks, return_exceptions=True)" returns when
\* every save task has finished.
SavesAwaited(t) == t.saved = SinkIds(t)

\* The gather of the save tasks returned: the close tasks of the sinks that
\* expose close are made; with none, _scrape_url returns.
AfterStore(t) ==
    IF ~SavesAwaited(t)
    THEN t
    ELSE IF Closables(t) = {}
         THEN [t EXCEPT !.pc = "url_done"]
         ELSE [t EXCEPT !.pc = "close", !.log = @ \o CloseCalls(t)]

AfterClose(t) ==
    IF t.closed # Closables(t) THEN t ELSE [t EXCEPT !.pc = "url_done"]

\* Variant: a failed stage that does not end the URL's continuation.
AbortIgnored(t, stage, kind) ==
    BeginStore([t EXCEPT !.fault = Worse(@, kind), !.failed_stage = stage])

\* The "return" after a stage that gave nothing ("empty") or raised inside
\* its try ("raised"): _scrape_url ends for this URL before the store.
Abort(t, stage, kind) ==
    [t EXCEPT !.pc = "url_done", !.fault = Worse(@, kind),
              !.failed_stage = stage]

\* The same in the KfcParser branch, where the end of the branch is the
\* end of _scrape_website.
KfcAbort(t, stage, kind) ==
    [t EXCEPT !.pc = "finishing", !.fault = Worse(@, kind),
              !.failed_stage = stage]

\* await fetcher.fetch: not inside any try of _scrape_url.
Fetch(s) ==
    /\ task[s].pc = "fetch"
    /\ LET t == Returned(task[s], "fetch")
       IN  \/ StepTo(s, Called([t EXCEPT !.pc = "parse"], "parse"))
           \/ StepTo(s, Abort(t, "fetch", "empty"))
           \/ ExceptionInSite(s, [t EXCEPT !.fault = "raised",
                                           !.failed_stage = "fetch"])
    /\ UNCHANGED <<plugin_state, max_concurrent_workers, enabled>>

\* await parser.parse, inside try/except Exception.
Parse(s, outputs) ==
    /\ task[s].pc = "parse"
    /\ LET t == Returned(task[s], "parse")
       IN  \/ \E data \in outputs :
                LET u == [t EXCEPT !.parsed_data = data]
                IN  StepTo(s, IF t.transformer
                              THEN Called([u EXCEPT !.pc = "transform"],
                                          "transform")
                              ELSE BeginStore(u))
           \/ StepTo(s, Abort(t, "parse", "empty"))
           \/ StepTo(s, Abort(t, "parse", "raised"))
    /\ UNCHANGED <<plugin_state, max_concurrent_workers, enabled>>

\* await transformer.transform, inside try/except Exception.
Transform(s) ==
    /\ task[s].pc = "transform"
    /\ LET t == Returned(task[s], "transform")
       IN  \/ \E data \in TransformerOutputs(t.parsed_data) :
                StepTo(s, BeginStore([t EXCEPT !.transformed_data = data]))
           \/ StepTo(s, Abort(t, "transform", "empty"))
           \/ StepTo(s, Abort(t, "transform", "raised"))
    /\ UNCHANGED <<plugin_state, max_concurrent_workers, enabled>>

\* One save task of the gather(return_exceptions=True) runs: it returns, or
\* its exception becomes a logged result.
Save(s, k) ==
    /\ task[s].pc = "store"
    /\ k \in SinkIds(task[s]) \ task[s].saved
    /\ LET t == [task[s] EXCEPT !.saved = @ \cup {k}, !.dirty = @ \cup {k},
                                !.log = Append(@, ReturnEvent("save", k))]
       IN  \/ StepTo(s, AfterStore([t EXCEPT !.stored = @ + 1]))
           \/ StepTo(s, AfterStore([t EXCEPT !.fault = "raised"]))
    /\ UNCHANGED <<plugin_state, max_concurrent_workers, enabled>>

\* One close task of the gather(return_exceptions=True) runs.
Close(s, k) ==
    /\ task[s].pc = "close"
    /\ k \in Closables(task[s]) \ task[s].closed
    /\ LET t == [task[s] EXCEPT !.closed = @ \cup {k}, !.dirty = @ \ {k},
                                !.log = Append(@, ReturnEvent("close", k))]
       IN  \/ StepTo(s, AfterClose(t))
           \/ StepTo(s, AfterClose([t EXCEPT !.fault = "raised"]))
    /\ UNCHANGED <<plugin_state, max_concurrent_workers, enabled>>

(***************************************************************************)
(* Orchestrator._scrape_website.                                           *)
(***************************************************************************)

\* Variant: the loop goes on to the next URL without awaiting _scrape_url.
UrlReturnedOrRunning(t) ==
    t.pc \in {"url_done", "fetch", "parse", "transform", "store", "close"}

\* "await self._scrape_url(...)": the loop goes on when the call returned.
UrlReturned(t) == t.pc = "url_done"

\* "for url in start_urls": the next _scrape_url call begins, or the loop
\* and _scrape_website end.
NextUrl(s) ==
    /\ UrlReturned(task[s])
    /\ LET t == task[s]
       IN  IF t.url < t.start_urls
           THEN StepTo(s, ScrapeUrl(t, t.url + 1))
           ELSE /\ t.pc = "url_done"
                /\ StepTo(s, [t EXCEPT !.pc = "finishing"])
    /\ UNCHANGED <<plugin_state, max_concurrent_workers, enabled>>

\* The KfcParser branch: one try/except Exception around parse, transform
\* and the saves, which are awaited one after the other.
KfcBeginStore(t) ==
    LET u == [t EXCEPT !.data_to_store = TRUE,
                       !.save_args = [k \in SinkIds(t) |-> <<>>]]
    IN  IF Len(t.storage_plugins) = 0
        THEN [u EXCEPT !.pc = "finishing"]
        ELSE [u EXCEPT !.pc = "kfc_store",
                       !.log = Append(@, CallEvent("save", 1))]

KfcParse(s, outputs) ==
    /\ task[s].pc = "kfc_parse"
    /\ LET t == Returned(task[s], "parse")
       IN  \/ \E data \in outputs :
                LET u == [t EXCEPT !.parsed_data = data]
                IN  StepTo(s, IF t.transformer
                              THEN Called([u EXCEPT !.pc = "kfc_transform"],
                                          "transform")
                              ELSE KfcBeginStore(u))
           \/ StepTo(s, KfcAbort(t, "parse", "empty"))
           \/ StepTo(s, KfcAbort(t, "parse", "raised"))
    /\ UNCHANGED <<plugin_state, max_concurrent_workers, enabled>>

KfcTransform(s) ==
    /\ task[s].pc = "kfc_transform"
    /\ LET t == Returned(task[s], "transform")
       IN  \/ \E data \in TransformerOutputs(t.parsed_data) :
                StepTo(s, KfcBeginStore([t EXCEPT !.transformed_data = data]))
           \/ StepTo(s, KfcAbort(t, "transform", "empty"))
           \/ StepTo(s, KfcAbort(t, "transform", "raised"))
    /\ UNCHANGED <<plugin_state, max_concurrent_workers, enabled>>

\* "await storage.save" of the next sink in list order; an exception ends
\* the branch.
KfcSave(s) ==
    /\ task[s].pc = "kfc_store"
    /\ LET k == Cardinality(task[s].saved) + 1
           t == [task[s] EXCEPT !.saved = @ \cup {k}, !.dirty = @ \cup {k},
                                !.save_args[k] = Append(@, DataToStore(task[s])),
                                !.log = Append(@, ReturnEvent("save", k))]
       IN  \/ StepTo(s, IF k = Len(t.storage_plugins)
                        THEN [t EXCEPT !.stored = @ + 1, !.pc = "finishing"]
                        ELSE [t EXCEPT !.stored = @ + 1,
                                       !.log = Append(@, CallEvent("save", k + 1))])
           \/ StepTo(s, [t EXCEPT !.pc = "finishing", !.fault = "raised"])
    /\ UNCHANGED <<plugin_state, max_concurrent_workers, enabled>>

\* The task leaves "async with semaphore" and completes; its locals are
\* gone, the history field fault is kept.
Release(s) ==
    /\ task[s].pc = "finishing"
    /\ ReleasePermit
    /\ task' = [task EXCEPT ![s] = [NoTask EXCEPT !.pc = "done",
                                                  !.fault = task[s].fault]]
    /\ UNCHANGED <<plugin_state, max_concurrent_workers, enabled, runState>>

\* The gather of run() returns and run() returns.
GatherReturn ==
    /\ runState = "gathering"
    /\ GatherDone
    /\ runState' = "returned"
    /\ UNCHANGED <<plugin_state, max_concurrent_workers, enabled, semaphore, task>>

\* One step of the orchestrator, the sites' configurations drawn from
\* configs and the parsers' results from outputs.
Step(configs, outputs) ==
    \/ Run
    \/ GatherReturn
    \/ \E s \in Sites :
         \/ Acquire(s)
         \/ LoadPluginsFail(s, configs)
         \/ LoadPlugins(s, configs)
         \/ Fetch(s)
         \/ Parse(s, outputs)
         \/ Transform(s)
         \/ NextUrl(s)
         \/ KfcParse(s, outputs)
         \/ KfcTransform(s)
         \/ KfcSave(s)
         \/ Release(s)
         \/ \E k \in 1..MaxSinks : Save(s, k) \/ Close(s, k)

(***************************************************************************)
(* Spec: run() over several sites under every configured worker count;     *)
(* each site has one sink and at most one entry URL.                       *)
(***************************************************************************)
Next == Step(SingleUrlConfigs, OneOutput)

Spec == Init /\ [][Next]_vars

(***************************************************************************)
(* SiteSpec: run() with one enabled site, of any configuration within the  *)
(* bounds, under the default worker count.                                 *)
(***************************************************************************)
SiteInit ==
    /\ max_concurrent_workers = DefaultWorkers
    /\ enabled = [s \in Sites |-> IF s = 1 THEN "true" ELSE "false"]
    /\ runState = "init"
    /\ semaphore = 0
    /\ task = [s \in Sites |-> NoTask]
    /\ StorageInit

SiteNext == Step(SiteConfigs, ParserOutputs)

SiteSpec == SiteInit /\ [][SiteNext]_vars

(***************************************************************************)
(* PostgresStorage and its MemoryBuffer.                                   *)
(***************************************************************************)

Range(seq) == {seq[i] : i \in 1..Len(seq)}

\* The location key of _deduplicate_data (name and address components):
\* two business identifiers can share one.
LocationKey(r) == (r.business_id + 1) \div 2

\* sum(1 for v in item.values() if v): the number of truthy values.
Filled(r) ==
    1 + (IF r.address THEN 1 ELSE 0) + (IF r.extra THEN 1 ELSE 0)

\* _validate_location: business_id and business_name are present in every
\* record of the model; street_address, state and suburb may be missing.
ValidateLocation(r) == r.address

\* _deduplicate_data: one record per location key, in the order the keys
\* first appear; a later record replaces the kept one only when it has
\* strictly more values.
RECURSIVE Deduplicate(_, _)
Deduplicate(data, kept) ==
    IF data = <<>>
    THEN kept
    ELSE LET r == Head(data)
             hit == {i \in 1..Len(kept) :
                       LocationKey(kept[i]) = LocationKey(r)}
         IN  Deduplicate(Tail(data),
                 IF hit = {}
                 THEN Append(kept, r)
                 ELSE LET i == CHOOSE j \in hit : TRUE
                      IN  IF Filled(r) > Filled(kept[i])
                          THEN [kept EXCEPT ![i] = r]
                          ELSE kept)

\* The business_ids of the records that pass _validate_location, in order.
RECURSIVE ValidIds(_)
ValidIds(data) ==
    IF data = <<>>
    THEN <<>>
    ELSE IF ValidateLocation(Head(data))
         THEN <<Head(data).business_id>> \o ValidIds(Tail(data))
         ELSE ValidIds(Tail(data))

\* What save adds to the buffer for each data list: the records left by
\* _deduplicate_data that pass _validate_location.
SaveAdds == [d \in Batches |-> ValidIds(Deduplicate(d, <<>>))]

\* The data lists passed to save, by what save does with them: whether the
\* list is empty, and what it adds to the buffer.
SaveInputs == {[empty |-> d = <<>>, adds |-> SaveAdds[d]] : d \in Batches}

\* MemoryBuffer.size()
BufferSize(sk) ==
    Len(sk.memory_buffer["kfc"]) + Len(sk.memory_buffer["nandos"])

\* The number of records save has added to the buffer so far.
Accepted(sk) == sk.accepted["kfc"] + sk.accepted["nandos"]

\* The number of upserts committed so far.
Written(sk) == sk.written["kfc"] + sk.written["nandos"]

\* MemoryBuffer.should_flush(source)
ShouldFlush(sk, src) == Len(sk.memory_buffer[src]) >= BufferMaxSize

\* _flush_buffer(source) begins: the state it finds is kept in attempt.
Attempt(sk, src) ==
    [sk EXCEPT !.attempt[src] = [buffer |-> sk.memory_buffer[src],
                                 written |-> sk.written[src]]]

\* Variant: a failed flush that puts its items back twice.
FlushFailureDuplicates(buf, items) == buf \o items \o items

\* Variant: a failed flush that does not put its items back.
FlushFailureDrops(buf, items) == buf

\* "for item in items: self.memory_buffer.add(source, item)": a flush that
\* failed puts its items back at the end of the source's buffer.
FlushFailure(buf, items) == buf \o items

\* The caller's call returns.
Return(c, op, failed) ==
    call' = [call EXCEPT ![c] = [IdleCall EXCEPT !.returned = op,
                                                 !.failed = failed]]

\* The database work of _flush_buffer, with the items it took from the
\* buffer: initialize_db when not initialised (create_async_engine may
\* raise, the connection may fail after its retries), then the transaction
\* of upserts, which commits or raises and is rolled back.
FlushOutcomes(sk) ==
    IF sk.is_initialized
    THEN {"committed", "transaction_error"}
    ELSE {"committed", "transaction_error", "engine_error", "connect_error"}

\* The statement "insert ... on conflict (business_id) do update": a new
\* row is ACTIVE with missing_count 0; an existing row gets the item's
\* fields, status ACTIVE and updated_at = utcnow(), and keeps its
\* missing_count.
Upsert(tbl, src, id, now) ==
    [tbl EXCEPT ![id] =
       IF @.status = "absent"
       THEN [source |-> src, status |-> "ACTIVE", missing_count |-> 0,
             updated_at |-> now]
       ELSE [@ EXCEPT !.source = src, !.status = "ACTIVE",
                      !.updated_at = now]]

\* "for item in items": the upserts in buffer order, each at a later time.
RECURSIVE UpsertAll(_, _, _, _)
UpsertAll(tbl, src, items, now) ==
    IF items = <<>>
    THEN tbl
    ELSE UpsertAll(Upsert(tbl, src, Head(items), now), src, Tail(items),
                   now + 1)

\* _handle_duplicates: among the ACTIVE rows of the source with the same
\* name and address columns the most recently updated one stays, the
\* others become DUPLICATE with updated_at = NOW().
HandleDuplicates(tbl, src, now) ==
    [id \in Ids |->
       IF /\ tbl[id].status = "ACTIVE" /\ tbl[id].source = src
          /\ \E other \in Ids :
               /\ tbl[other].status = "ACTIVE" /\ tbl[other].source = src
               /\ LocationKey([business_id |-> other])
                    = LocationKey([business_id |-> id])
               /\ tbl[other].updated_at > tbl[id].updated_at
       THEN [tbl[id] EXCEPT !.status = "DUPLICATE", !.updated_at = now]
       ELSE tbl[id]]

\* Variant: a location seen in the flush counted like a missing one.
SeenCountIncremented(count) == count + 1

\* "SET last_seen_date = :current_time, missing_count = 0"
SeenCount(count) == 0

\* Variant: a row closes only once its count is past the threshold.
PastThreshold(count) == count > MissingThreshold

\* "AND missing_count >= 20", the threshold scaled to MissingThreshold.
ReachedThreshold(count) == count >= MissingThreshold

\* _update_location_statuses: of the ACTIVE rows of the source, those whose
\* business_id is among the flushed items get missing_count 0, the others
\* missing_count + 1; then those at the threshold become CLOSED.
UpdateLocationStatuses(tbl, src, current_business_ids) ==
    [id \in Ids |->
       IF tbl[id].status = "ACTIVE" /\ tbl[id].source = src
       THEN LET count == IF id \in current_business_ids
                         THEN SeenCount(tbl[id].missing_count)
                         ELSE tbl[id].missing_count + 1
            IN  [tbl[id] EXCEPT !.missing_count = count,
                                !.status = IF ReachedThreshold(count)
                                           THEN "CLOSED" ELSE "ACTIVE"]
       ELSE tbl[id]]

\* The transaction of _flush_buffer, committed.  Time is the number of
\* upserts committed so far.
CommitFlush(tbl, src, items, now) ==
    UpdateLocationStatuses(
        HandleDuplicates(UpsertAll(tbl, src, items, now + 1), src,
                         now + Len(items)),
        src, Range(items))

\* The caller c changes the memory buffer (add, get_and_clear) while holder
\* holds the lock.
Mutated(sk, c, holder) == [sk EXCEPT !.mutation = [by |-> c, holder |-> holder]]

\* The holder of the lock as a call of c runs: save runs its buffer code
\* inside "async with self.lock"; close takes no lock, the lock is free or
\* another caller's.
LockAt(sk, c, op) == IF op = "save" THEN c ELSE sk.lock

\* Variant: a committed flush replaces the table's rows.
PersistOverwrites(db, items) == Range(items)

\* The rows of qsr_locations after the upserts of a committed flush: those
\* it had and those of the items.
Persist(db, items) == db \cup Range(items)

\* close() returns.
Closed(sk) == [sk EXCEPT !.closes = IF @ < 2 THEN @ + 1 ELSE @]

FlushEnd(sk, src, items, outcome) ==
    CASE outcome = "committed" ->
           [sk EXCEPT !.is_initialized = TRUE, !.engine = TRUE,
                      !.db = Persist(@, items),
                      !.table = CommitFlush(@, src, items, Written(sk)),
                      !.before = sk.table,
                      !.repeated =
                          sk.last_commit = [source |-> src, items |-> items],
                      !.last_commit = [source |-> src, items |-> items],
                      !.written[src] = @ + Len(items)]
      [] outcome = "transaction_error" ->
           [sk EXCEPT !.is_initialized = TRUE, !.engine = TRUE,
                      !.memory_buffer[src] = FlushFailure(@, items)]
      [] outcome = "connect_error" ->
           [sk EXCEPT !.engine = TRUE,
                      !.memory_buffer[src] = FlushFailure(@, items)]
      [] outcome = "engine_error" ->
           [sk EXCEPT !.memory_buffer[src] = FlushFailure(@, items)]

\* close(): after the flushes, the engine, if one exists, is disposed.
CloseFinish(sk, c, failed) ==
    IF sk.engine
    THEN /\ sink' = sk
         /\ call' = [call EXCEPT ![c] = [IdleCall EXCEPT !.pc = "dispose_io",
                                                         !.op = "close",
                                                         !.failed = failed]]
    ELSE /\ sink' = Closed(sk)
         /\ Return(c, "close", failed)

\* close(): the loop over the buffer's sources.  Without a connection
\* string every _flush_buffer puts its items back at once; otherwise the
\* next source with buffered items is taken out of the buffer and its
\* flush goes to the database.
CloseContinue(sk, c, todo, failed) ==
    LET nonEmpty == {src \in todo : Len(sk.memory_buffer[src]) > 0}
    IN  IF nonEmpty = {}
        THEN CloseFinish(sk, c, failed)
        ELSE IF sk.last_config = "none"
             THEN CloseFinish(
                      Mutated([sk EXCEPT !.memory_buffer =
                                 [src \in SourceNames |->
                                    IF src \in nonEmpty
                                    THEN FlushFailure(<<>>,
                                                      sk.memory_buffer[src])
                                    ELSE sk.memory_buffer[src]],
                                         !.attempt =
                                 [src \in SourceNames |->
                                    IF src \in nonEmpty
                                    THEN Attempt(sk, src).attempt[src]
                                    ELSE sk.attempt[src]]],
                              c, LockAt(sk, c, "close")),
                      c, failed \cup nonEmpty)
             ELSE \E src \in nonEmpty :
                    /\ sink' = Mutated([Attempt(sk, src) EXCEPT
                                          !.memory_buffer[src] = <<>>],
                                       c, LockAt(sk, c, "close"))
                    /\ call' = [call EXCEPT ![c] =
                                  [IdleCall EXCEPT
                                     !.pc = "flush_io", !.op = "close",
                                     !.source = src,
                                     !.items = sk.memory_buffer[src],
                                     !.config = sk.last_config,
                                     !.todo = todo \ {src},
                                     !.failed = failed]]

\* save() inside "async with self.lock": the valid records are added to the
\* buffer; at max_size the source's buffer is flushed with save's config.
SaveLocked(sk, c, src, ids, cfg) ==
    LET sk1 == [sk EXCEPT !.memory_buffer[src] = @ \o ids,
                          !.accepted[src] = @ + Len(ids),
                          !.accepted_ids[src] = @ \cup Range(ids)]
        sk2 == IF ids = <<>>
               THEN sk1
               ELSE [Mutated(sk1, c, LockAt(sk, c, "save"))
                       EXCEPT !.reopened = @ \/ sk.closes > 0]
        items == sk2.memory_buffer[src]
    IN  IF ~ShouldFlush(sk2, src) \/ items = <<>>
        THEN sink' = sk2 /\ Return(c, "save", {})
        ELSE IF cfg = "none"
             THEN /\ sink' = Mutated([Attempt(sk2, src) EXCEPT
                                        !.memory_buffer[src] =
                                            FlushFailure(<<>>, items)],
                                     c, LockAt(sk, c, "save"))
                  /\ Return(c, "save", {src})
             ELSE /\ sink' = Mutated([Attempt(sk2, src) EXCEPT
                                        !.memory_buffer[src] = <<>>,
                                        !.lock = c],
                                     c, LockAt(sk, c, "save"))
                  /\ call' = [call EXCEPT ![c] =
                                [IdleCall EXCEPT !.pc = "flush_io",
                                                 !.op = "save",
                                                 !.source = src,
                                                 !.items = items,
                                                 !.config = cfg]]

\* save(data, config) up to its first suspension.  The lock is free: only
\* a save holds it, and the sink has one caller of save, which awaits each
\* save before the next.
SaveCall(c) ==
    /\ call[c].pc = "idle"
    /\ \E src \in SourceNames, cfg \in StorageConfigs, data \in SaveInputs :
         /\ Accepted(sink) + Len(data.adds) <= MaxAccepted
         /\ IF data.empty
            THEN sink' = sink /\ Return(c, "save", {})
            ELSE /\ sink.lock = 0
                 /\ SaveLocked([sink EXCEPT !.last_config = cfg], c, src,
                               data.adds, cfg)
    /\ UNCHANGED <<orchestrator, fetching, naming, jsonfile, parsing>>

\* close() up to its first suspension.
CloseCall(c) ==
    /\ call[c].pc = "idle"
    /\ IF BufferSize(sink) > 0 /\ sink.last_config # "unset"
       THEN CloseContinue(sink, c, SourceNames, {})
       ELSE CloseFinish(sink, c, {})
    /\ UNCHANGED <<orchestrator, fetching, naming, jsonfile, parsing>>

\* The database work of a flush ends; save releases the lock and returns,
\* close goes on with its loop.
FlushIO(c) ==
    /\ call[c].pc = "flush_io"
    /\ \E outcome \in FlushOutcomes(sink) :
         LET src == call[c].source
             end == FlushEnd(sink, src, call[c].items, outcome)
             sk == IF outcome = "committed"
                   THEN end
                   ELSE Mutated(end, c, LockAt(sink, c, call[c].op))
             bad == IF outcome = "committed" THEN {} ELSE {src}
         IN  IF call[c].op = "save"
             THEN /\ sink' = [sk EXCEPT !.lock = 0]
                  /\ Return(c, "save", bad)
             ELSE CloseContinue(sk, c, call[c].todo,
                                call[c].failed \cup bad)
    /\ UNCHANGED <<orchestrator, fetching, naming, jsonfile, parsing>>

\* "await self.engine.dispose()" ends: _is_initialized is reset, unless
\* dispose raised, which close logs.
Dispose(c) ==
    /\ call[c].pc = "dispose_io"
    /\ \/ sink' = Closed([sink EXCEPT !.is_initialized = FALSE])
       \/ sink' = Closed(sink)
    /\ Return(c, "close", call[c].failed)
    /\ UNCHANGED <<orchestrator, fetching, naming, jsonfile, parsing>>

(***************************************************************************)
(* StorageSpec: one PostgresStorage instance and its caller.               *)
(***************************************************************************)
StorageSpecInit ==
    /\ max_concurrent_workers = DefaultWorkers
    /\ enabled = [s \in Sites |-> "false"]
    /\ runState = "init"
    /\ semaphore = 0
    /\ task = [s \in Sites |-> NoTask]
    /\ StorageInit

StorageNext ==
    \E c \in Callers :
      \/ SaveCall(c)
      \/ CloseCall(c)
      \/ FlushIO(c)
      \/ Dispose(c)

StorageSpec == StorageSpecInit /\ [][StorageNext]_vars

(***************************************************************************)
(* SharedSinkSpec: one PostgresStorage instance with two callers, the      *)
(* first calling save and the second close, so that a save and a close     *)
(* overlap.                                                                *)
(***************************************************************************)
Saver == 1
Closer == 2

SharedSinkNext ==
    \/ SaveCall(Saver)
    \/ FlushIO(Saver)
    \/ CloseCall(Closer)
    \/ FlushIO(Closer)
    \/ Dispose(Closer)

SharedSinkSpec == StorageSpecInit /\ [][SharedSinkNext]_vars

(***************************************************************************)
(* The fetchers: AsyncHTTPXFetcher.fetch and ZendriverFetcher.fetch.       *)
(*   pc: idle, request (an attempt is awaited), sleep (the delay before a  *)
(*       retry is awaited), returned, raised                               *)
(*   result: "content" for a (content, content_type, status) triple,       *)
(*       "all_none" for (None, None, None)                                 *)
(***************************************************************************)
FetcherClasses == {"AsyncHTTPXFetcher", "ZendriverFetcher"}

\* The merged configuration of a fetch, by what the code does with it:
\* use_proxy; proxy_username and proxy_password missing, strings, or one of
\* them a number (as YAML reads an all-digit value); retry_delay a number
\* or a string; max_retries.
FetchConfigs ==
    [use_proxy : BOOLEAN, credentials : {"missing", "string", "number"},
     retry_delay : {"number", "string"}, max_retries : 0..MaxRetries]

\* How one attempt ends: content, no content (ZendriverFetcher's page gave
\* None), a transient transport error (httpx.RequestError and its
\* subclasses), an HTTP status error, another exception.
AttemptOutcomes ==
    {"content", "no_content", "transient_error", "status_error",
     "unexpected_error"}

FetchReturns(result, outcome) ==
    fetching' = [fetching EXCEPT !.pc = "returned", !.result = result,
                                 !.outcome = outcome]

FetchRaises ==
    fetching' = [fetching EXCEPT !.pc = "raised"]

\* fetch() up to its first await.  AsyncHTTPXFetcher with use_proxy returns
\* all-None when a credential is missing and otherwise builds the proxy URL
\* with urllib.parse.quote, before its try block: quote raises TypeError for
\* a credential that is not a string.  Otherwise the loop is entered
\* (max_retries is not negative) and the first attempt starts.
FetchCall ==
    /\ fetching.pc = "idle"
    /\ \E f \in FetcherClasses, c \in FetchConfigs :
         LET t == [NoFetch EXCEPT !.fetcher = f, !.use_proxy = c.use_proxy,
                                  !.credentials = c.credentials,
                                  !.retry_delay = c.retry_delay,
                                  !.max_retries = c.max_retries]
             first == [t EXCEPT !.pc = "request", !.requests = 1]
         IN  IF f = "AsyncHTTPXFetcher" /\ c.use_proxy
             THEN CASE c.credentials = "missing" ->
                         fetching' = [t EXCEPT !.pc = "returned",
                                               !.result = "all_none"]
                    [] c.credentials = "number" ->
                         fetching' = [t EXCEPT !.pc = "raised"]
                    [] c.credentials = "string" ->
                         fetching' = first
             ELSE fetching' = first
    /\ UNCHANGED <<orchestrator, storage, naming, jsonfile, parsing>>

\* "retry_count <= max_retries", the test of the loop and of the handler.
RetriesLeft(retry_count, max_retries) == retry_count <= max_retries

\* The except clause of a failed attempt that is retried: retry_count is
\* incremented; while it does not exceed max_retries the delay is computed
\* (AsyncHTTPXFetcher: retry_delay * retry_backoff ** n) and slept
\* (ZendriverFetcher: asyncio.sleep(retry_delay)), both of which raise
\* TypeError, inside the handler, for a retry_delay that is a string; past
\* max_retries the loop ends and all-None is returned.
RetryOrGiveUp(outcome) ==
    IF RetriesLeft(fetching.retry_count + 1, fetching.max_retries)
    THEN IF fetching.retry_delay = "string"
         THEN fetching' = [fetching EXCEPT !.pc = "raised",
                                           !.retry_count = @ + 1,
                                           !.outcome = outcome]
         ELSE fetching' = [fetching EXCEPT !.pc = "sleep",
                                           !.retry_count = @ + 1,
                                           !.outcome = outcome]
    ELSE fetching' = [fetching EXCEPT !.pc = "returned",
                                      !.result = "all_none",
                                      !.retry_count = @ + 1,
                                      !.outcome = outcome]

\* One attempt ends.  AsyncHTTPXFetcher retries transient errors only and
\* breaks on a status error or another exception; ZendriverFetcher returns
\* all-None for a page without content and retries every exception.
FetchAttempt ==
    /\ fetching.pc = "request"
    /\ \E outcome \in AttemptOutcomes :
         IF fetching.fetcher = "AsyncHTTPXFetcher"
         THEN CASE outcome = "content" -> FetchReturns("content", outcome)
                [] outcome = "no_content" -> FALSE
                [] outcome = "transient_error" -> RetryOrGiveUp(outcome)
                [] outcome \in {"status_error", "unexpected_error"} ->
                     FetchReturns("all_none", outcome)
         ELSE CASE outcome = "content" -> FetchReturns("content", outcome)
                [] outcome = "no_content" ->
                     FetchReturns("all_none", outcome)
                [] outcome = "status_error" -> FALSE
                [] outcome \in {"transient_error", "unexpected_error"} ->
                     RetryOrGiveUp(outcome)
    /\ UNCHANGED <<orchestrator, storage, naming, jsonfile, parsing>>

\* The delay before a retry is over: the loop makes the next attempt.
FetchSleep ==
    /\ fetching.pc = "sleep"
    /\ fetching' = [fetching EXCEPT !.pc = "request", !.requests = @ + 1,
                                    !.retried_after = @ \cup {fetching.outcome}]
    /\ UNCHANGED <<orchestrator, storage, naming, jsonfile, parsing>>

(***************************************************************************)
(* FetcherSpec: one fetch call of one fetcher.                             *)
(***************************************************************************)
FetcherSpecInit ==
    /\ max_concurrent_workers = DefaultWorkers
    /\ enabled = [s \in Sites |-> "false"]
    /\ runState = "init"
    /\ semaphore = 0
    /\ task = [s \in Sites |-> NoTask]
    /\ StorageInit

FetcherNext ==
    \/ FetchCall
    \/ FetchAttempt
    \/ FetchSleep

FetcherSpec == FetcherSpecInit /\ [][FetcherNext]_vars

(***************************************************************************)
(* generate_business_id: the module-level function of address_transformer, *)
(* the method of the same name of eight transformers and of KfcParser, and *)
(* YochiTransformer._generate_business_id.  A string is a sequence of      *)
(* Characters.                                                             *)
(***************************************************************************)
IdCopies ==
    {"address_transformer", "EljannahTransformer", "GrilldTransformer",
     "GygTransformer", "NandosTransformer", "NoodleboxTransformer",
     "RedRoosterTransformer", "ZambreroTransformer", "ZeusTransformer",
     "KfcParser", "YochiTransformer"}

\* str.lower()
Lower(s) == [i \in 1..Len(s) |-> IF s[i] = "A" THEN "a" ELSE s[i]]

RECURSIVE LStrip(_)
LStrip(s) == IF s # <<>> /\ Head(s) = " " THEN LStrip(Tail(s)) ELSE s

RECURSIVE RStrip(_)
RStrip(s) ==
    IF s # <<>> /\ s[Len(s)] = " "
    THEN RStrip(SubSeq(s, 1, Len(s) - 1))
    ELSE s

\* str.strip()
Strip(s) == RStrip(LStrip(s))

\* name.lower().strip()
Normalized(s) == Strip(Lower(s))

\* f"{name.lower().strip()}|{address.lower().strip()}": the string hashed.
DataString(name, address) ==
    Normalized(name) \o <<"|">> \o Normalized(address)

\* hashlib's hexdigest of a message, cut to its first hexdigits digits: the
\* digest itself is not computed, it stands for its algorithm, its length
\* and its message.
HexDigest(algorithm, hexdigits, message) ==
    [algorithm |-> algorithm, hexdigits |-> hexdigits, message |-> message]

generate_business_id(copy, name, address) ==
    IF copy = "YochiTransformer"
    THEN HexDigest("sha256", 16, DataString(name, address))
    ELSE HexDigest("sha1", 40, DataString(name, address))

\* One call; naming keeps it and the call before it.
IdCall(copy, name, address) ==
    /\ naming' =
           [last |-> [copy |-> copy, name |-> name, address |-> address,
                      id |-> generate_business_id(copy, name, address)],
            previous |-> naming.last]
    /\ UNCHANGED <<orchestrator, storage, fetching, jsonfile, parsing>>

IdFirstCall ==
    /\ naming.last = NoId
    /\ \E copy \in IdCopies, name \in NameStrings, address \in AddressStrings :
           IdCall(copy, name, address)

\* A second call with the same strings, of any copy.
IdSameInput ==
    /\ naming.last # NoId
    /\ naming.previous = NoId
    /\ \E copy \in IdCopies :
           IdCall(copy, naming.last.name, naming.last.address)

\* A second call of the same copy, with any strings.
IdSameCopy ==
    /\ naming.last # NoId
    /\ naming.previous = NoId
    /\ \E name \in NameStrings, address \in AddressStrings :
           IdCall(naming.last.copy, name, address)

(***************************************************************************)
(* IdSpec: two calls of generate_business_id.                              *)
(***************************************************************************)
IdNext ==
    \/ IdFirstCall
    \/ IdSameInput
    \/ IdSameCopy

IdSpec == FetcherSpecInit /\ [][IdNext]_vars

(***************************************************************************)
(* JSONStorage.save on one output file.  The file is opened in append mode *)
(* and closed when "async with" is left, also by an exception: lines is    *)
(* the content of the file as the writes of the call reach it.             *)
(***************************************************************************)

\* An item of data, by whether json.dumps with json_serializer can
\* serialize all its values (str, numbers, None, datetime, ...) or raises
\* TypeError for one of them.
JsonRecords == [record : {"r1", "r2"}, serializable : BOOLEAN]

JsonLists == UNION {[1..n -> JsonRecords] : n \in 0..MaxParsed}

\* os.path.dirname(output_file): empty, a directory os.makedirs finds or
\* can make, or one it cannot make.
OutputDirs == {"none", "creatable", "blocked"}

\* json.dumps(item, ensure_ascii=False, default=json_serializer) + "\n"
JsonLine(item) == [json |-> item.record, newline |-> TRUE]

JsonLines(data) == [i \in 1..Len(data) |-> JsonLine(data[i])]

\* save up to the first await: os.makedirs outside the try, the return for
\* empty data, aiofiles.open.
JsonSave ==
    /\ jsonfile.pc \in {"idle", "returned", "raised"}
    /\ \E data \in JsonLists, dir \in OutputDirs :
         /\ Len(jsonfile.lines) + Len(data) <= MaxLines
         /\ LET j == [jsonfile EXCEPT !.before = jsonfile.lines,
                                      !.data = data, !.next = 1]
            IN  jsonfile' =
                  IF dir = "blocked"
                  THEN [j EXCEPT !.pc = "raised"]
                  ELSE IF data = <<>>
                       THEN [j EXCEPT !.pc = "returned"]
                       ELSE [j EXCEPT !.pc = "writing"]
    /\ UNCHANGED <<orchestrator, storage, fetching, naming, parsing>>

\* One turn of "for item in data": json.dumps raises TypeError, or the
\* line is written, or the write raises IOError; both exceptions are caught
\* and logged, and save returns.
JsonWrite ==
    /\ jsonfile.pc = "writing"
    /\ LET item == jsonfile.data[jsonfile.next]
           last == jsonfile.next = Len(jsonfile.data)
       IN  IF ~item.serializable
           THEN jsonfile' = [jsonfile EXCEPT !.pc = "returned"]
           ELSE \/ jsonfile' =
                     [jsonfile EXCEPT !.lines = Append(@, JsonLine(item)),
                                      !.next = @ + 1,
                                      !.pc = IF last THEN "returned"
                                                     ELSE "writing"]
                \/ jsonfile' = [jsonfile EXCEPT !.pc = "returned"]
    /\ UNCHANGED <<orchestrator, storage, fetching, naming, parsing>>

(***************************************************************************)
(* JsonSpec: successive saves of one JSONStorage on one file.              *)
(***************************************************************************)
JsonNext ==
    \/ JsonSave
    \/ JsonWrite

JsonSpec == FetcherSpecInit /\ [][JsonNext]_vars


(***************************************************************************)
(* The detail-page fetches of NandosParser and ZeusParser.                 *)
(*   pc: idle, gather (the gather of a batch is awaited), pause            *)
(*       (NandosParser's sleep between batches), returned                  *)
(***************************************************************************)
ThrottledParsers == {"NandosParser", "ZeusParser"}

Min(a, b) == IF a <= b THEN a ELSE b

\* The length of a batch: NandosParser slices the URLs by batch_size,
\* ZeusParser the coroutines by max_concurrent.
BatchLength(p) ==
    IF p.parser = "NandosParser" THEN BatchSize ELSE p.max_concurrent

\* The fetches awaited at this moment.
InFlight(p) == Cardinality({u \in DetailUrls : p.detail[u] = "fetching"})

\* "for i in range(0, len(urls), size)": the batch after batch_end is
\* sliced and its coroutines are handed to asyncio.gather.
StartBatch(p) ==
    LET last == Min(p.urls, p.batch_end + BatchLength(p))
    IN  [p EXCEPT !.pc = "gather", !.batch_end = last,
                  !.detail = [u \in DetailUrls |->
                                IF u > p.batch_end /\ u <= last
                                THEN "ready" ELSE p.detail[u]]]

\* The parse call up to the gather of its first batch: the detail URLs are
\* known (NandosParser: from the sitemap, and none makes parse return;
\* ZeusParser: from the location names), max_concurrent is read from the
\* parser options, NandosParser makes its semaphore.
ParseCall ==
    /\ parsing.pc = "idle"
    /\ \E parser \in ThrottledParsers, m \in 1..MaxConcurrent,
          n \in 0..MaxDetailUrls :
         LET p == [NoParse EXCEPT
                     !.parser = parser, !.max_concurrent = m, !.urls = n,
                     !.semaphore = IF parser = "NandosParser" THEN m ELSE 0,
                     !.detail = [u \in DetailUrls |->
                                   IF u <= n THEN "queued" ELSE "none"]]
         IN  parsing' = IF n = 0 THEN [p EXCEPT !.pc = "returned"]
                        ELSE StartBatch(p)
    /\ UNCHANGED <<orchestrator, storage, fetching, naming, jsonfile>>

\* Variant: a semaphore that never makes a coroutine wait.
PermitAlwaysAvailable(value) == TRUE

\* asyncio.Semaphore.acquire returns at once only while the value is
\* positive; otherwise the coroutine waits for a release.
PermitAvailable(value) == value > 0

\* A coroutine of the running batch starts its fetch: fetch_with_semaphore
\* of NandosParser once it is inside "async with semaphore",
\* fetch_and_parse_detail of ZeusParser as soon as the gather runs it.
DetailStart(u) ==
    /\ parsing.pc = "gather"
    /\ parsing.detail[u] = "ready"
    /\ parsing.parser = "NandosParser"
         => PermitAvailable(parsing.semaphore)
    /\ LET p == [parsing EXCEPT
                   !.detail[u] = "fetching",
                   !.attempted = @ \cup {u},
                   !.semaphore = IF parsing.parser = "NandosParser"
                                 THEN @ - 1 ELSE @]
       IN  parsing' = [p EXCEPT !.peak = IF InFlight(p) > @
                                         THEN InFlight(p) ELSE @]
    /\ UNCHANGED <<orchestrator, storage, fetching, naming, jsonfile>>

\* The fetch of a detail page ends, with content, without, or with an
\* exception.  NandosParser (_fetch_and_parse_restaurant_page catches every
\* exception) goes on to its sleep(0.1), still inside the semaphore; the
\* coroutine of ZeusParser is done, an exception is kept by the gather.
DetailFetched(u) ==
    /\ parsing.detail[u] = "fetching"
    /\ \E outcome \in {"content", "no_content", "exception"} :
         parsing' = [parsing EXCEPT
                       !.detail[u] = IF parsing.parser = "NandosParser"
                                     THEN "sleeping" ELSE "done"]
    /\ UNCHANGED <<orchestrator, storage, fetching, naming, jsonfile>>

\* NandosParser: the delay after a fetch is over, the coroutine leaves
\* "async with semaphore" and returns.
DetailSlept(u) ==
    /\ parsing.detail[u] = "sleeping"
    /\ parsing' = [parsing EXCEPT !.detail[u] = "done",
                                  !.semaphore = @ + 1]
    /\ UNCHANGED <<orchestrator, storage, fetching, naming, jsonfile>>

\* The gather of a batch returns: results are collected; with URLs left
\* NandosParser pauses and ZeusParser goes on to the next batch, otherwise
\* the results are returned.
BatchDone ==
    /\ parsing.pc = "gather"
    /\ \A u \in DetailUrls : parsing.detail[u] \in {"none", "queued", "done"}
    /\ parsing' =
         IF parsing.batch_end < parsing.urls
         THEN IF parsing.parser = "NandosParser"
              THEN [parsing EXCEPT !.pc = "pause"]
              ELSE StartBatch(parsing)
         ELSE [parsing EXCEPT !.pc = "returned"]
    /\ UNCHANGED <<orchestrator, storage, fetching, naming, jsonfile>>

\* NandosParser: the pause between two batches is over.
BatchPause ==
    /\ parsing.pc = "pause"
    /\ parsing' = StartBatch(parsing)
    /\ UNCHANGED <<orchestrator, storage, fetching, naming, jsonfile>>

(***************************************************************************)
(* ParserSpec: one parse call of NandosParser or ZeusParser.  The event    *)
(* loop runs every coroutine that can continue, and the awaited fetches    *)
(* and sleeps end.                                                         *)
(***************************************************************************)
ParserNext ==
    \/ ParseCall
    \/ \E u \in DetailUrls :
         \/ DetailStart(u)
         \/ DetailFetched(u)
         \/ DetailSlept(u)
    \/ BatchDone
    \/ BatchPause

ParserSpec == FetcherSpecInit /\ [][ParserNext]_vars /\ WF_vars(ParserNext)

(***************************************************************************)
(* Properties.                                                             *)
(***************************************************************************)

\* The save calls a site makes when no plugin call of it fails: one per
\* sink for each entry URL, one per sink for a KfcParser site.
Target(t) ==
    (IF t.parser = "kfc" THEN 1 ELSE t.start_urls) * Len(t.storage_plugins)

\* C1. Site-level fault isolation: whatever a sibling site's plugins raise,
\* no site task is ever cancelled and run() does not raise because of it,
\* and a site whose own plugin calls all succeed reaches the end of its
\* task having had every save of every entry URL return normally.
C1_SiteFaultIsolation ==
    /\ runState = "raised" => max_concurrent_workers < 0
    /\ \A b \in Sites :
         /\ task[b].pc # "cancelled"
         /\ (task[b].pc = "finishing" /\ task[b].parser # "none"
               /\ task[b].fault = "none")
              => task[b].stored = Target(task[b])

\* C1 witness: site a ended after an exception in its pipeline, and sibling
\* b has stored its records.
C1_Witness ==
    \E a, b \in Sites :
      /\ a # b
      /\ task[a].pc = "done" /\ task[a].fault = "raised"
      /\ task[b].pc = "finishing" /\ task[b].fault = "none"
      /\ task[b].stored = Target(task[b]) /\ task[b].stored > 0

\* C2. URL-level fault isolation: when the task of a site with a parser
\* other than KfcParser ends, every one of its entry URLs has been started,
\* whatever failed on the URLs before it.
C2_UrlFaultIsolation ==
    \A s \in Sites :
      (task[s].pc = "finishing" /\ task[s].parser = "generic")
        => task[s].url = task[s].start_urls

\* C3. Concurrency bound: with max_concurrent_workers = N >= 1, at most N
\* site tasks are inside the semaphore-guarded region.
C3_ConcurrencyBound ==
    max_concurrent_workers >= 1
      => Cardinality(Holders) <= max_concurrent_workers

\* C3 witness: the region is full and another site waits outside it.
C3_Witness ==
    /\ max_concurrent_workers >= 1
    /\ Cardinality(Holders) = max_concurrent_workers
    /\ \E s \in Sites : task[s].pc = "pending"

\* C4. Permits are conserved: once the semaphore exists, its value plus the
\* number of site tasks holding a permit is max_concurrent_workers.
C4_PermitsConserved ==
    runState \in {"gathering", "returned"}
      => semaphore + Cardinality(Holders) = max_concurrent_workers

\* C4 witness: run() has returned after one task ended by a plugin-loading
\* failure and another by an exception, and every permit is back.
C4_Witness ==
    /\ runState = "returned"
    /\ max_concurrent_workers >= 1
    /\ semaphore = max_concurrent_workers
    /\ \E a, b \in Sites :
         /\ task[a].pc = "done" /\ task[a].fault = "load"
         /\ task[b].pc = "done" /\ task[b].fault = "raised"

\* C5. Termination: for every configuration run() eventually returns
\* without raising; as long as it has not returned, some step is possible.
C5_RunTerminates == runState = "returned" \/ ENABLED Next

\* C6. Joint completion: when run() returns, the task of every enabled site
\* has completed.
C6_JointCompletion ==
    runState = "returned"
      => \A s \in Sites : enabled[s] # "false" => task[s].pc = "done"

\* C6 witness: run() has returned with two site tasks completed, one of
\* them after a failure.
C6_Witness ==
    /\ runState = "returned"
    /\ \E a, b \in Sites :
         /\ a # b
         /\ task[a].pc = "done" /\ task[a].fault # "none"
         /\ task[b].pc = "done" /\ task[b].fault = "none"

\* C7. Disabled sites are inert: a site with enabled = false never has a
\* task, plugins or a permit; a site with no enabled key gets a task as
\* soon as run() has scheduled the sites.
C7_DisabledSitesInert ==
    \A s \in Sites :
      /\ enabled[s] = "false"
           => /\ task[s] \in {NoTask, [NoTask EXCEPT !.pc = "skipped"]}
              /\ s \notin Holders
      /\ (enabled[s] = "absent" /\ runState \in {"gathering", "returned"})
           => task[s].pc \notin {"idle", "skipped"}

\* C7 witness: run() has returned, a disabled site was skipped and a site
\* with no enabled key has run.
C7_Witness ==
    /\ runState = "returned"
    /\ \E a, b \in Sites :
         /\ enabled[a] = "false" /\ task[a].pc = "skipped"
         /\ enabled[b] = "absent" /\ task[b].pc = "done"

\* C8. Per-sink isolation: whenever a site had data to store, every sink of
\* the site has had its save called by the time the URL (or the KfcParser
\* branch) ends, whatever the other sinks' saves raised.
C8_PerSinkIsolation ==
    \A s \in Sites :
      (task[s].pc \in {"url_done", "finishing"} /\ task[s].data_to_store)
        => task[s].saved = SinkIds(task[s])

\* C9. Close follows store: when a site task ends, every sink that exposes
\* close and had save called on it has been closed since.
C9_CloseFollowsStore ==
    \A s \in Sites :
      task[s].pc = "finishing"
        => \A k \in task[s].dirty : ~HasClose(task[s].storage_plugins[k])

Loaded(s) == task[s].pc \in InsidePcs \ {"loading"}

\* The site was aborted at plugin loading: nothing but the configuration
\* and the fault was recorded, so no fetch, parse, transform or save call
\* was made for it.
AbortedAtLoading(s) ==
    task[s] = [NoTask EXCEPT !.pc = "finishing", !.fault = "load",
                             !.config = task[s].config]

\* C11. A transformer that is named in the site's configuration and cannot
\* be constructed (class not loadable, or constructor raising) is fatal to
\* the site: the site is aborted at plugin loading, no fetch, parse or save
\* is performed for it.
C11_TransformerFailureFatal ==
    \A s \in Sites :
      (Loaded(s) /\ task[s].config.transformer \in {"unloadable", "ctor_raises"})
        => AbortedAtLoading(s)

\* C12. A fetcher or parser that is not named, cannot be loaded or cannot
\* be constructed aborts exactly that site: the site makes no fetch, parse,
\* transform or save call, no sibling task is cancelled, run() does not
\* raise for it, and a sibling that met no failure has stored everything.
C12_FetcherParserFailureAbortsSite ==
    /\ runState = "raised" => max_concurrent_workers < 0
    /\ \A s \in Sites :
         /\ (Loaded(s) /\ (task[s].config.fetcher # "ok"
                             \/ task[s].config.parser # "ok"))
              => AbortedAtLoading(s)
         /\ task[s].fault = "load" => task[s].pc \in {"finishing", "done"}
         /\ task[s].pc # "cancelled"
         /\ (task[s].pc = "finishing" /\ task[s].fault = "none")
              => task[s].stored = Target(task[s])

\* C12 witness: one site was aborted because its parser's constructor
\* raised, while a sibling, holding no permit yet when that happened or
\* done before, is complete with its records stored.
C12_Witness ==
    \E a, b \in Sites :
      /\ a # b
      /\ task[a].pc = "done" /\ task[a].fault = "load"
      /\ task[b].pc = "finishing" /\ task[b].fault = "none"
      /\ task[b].config.fetcher = "ok" /\ task[b].config.parser = "ok"
      /\ task[b].stored = Target(task[b]) /\ task[b].stored > 0

\* C13. A parser class whose constructor declares no fetcher parameter is
\* instantiated without the fetcher: with a fetcher created, such a site is
\* not aborted at plugin loading.
C13_FetcherInjectedOnlyIfDeclared ==
    \A s \in Sites :
      (Loaded(s) /\ task[s].config.fetcher = "ok"
                 /\ task[s].config.parser = "no_fetcher_param")
        => task[s].fault # "load"

\* The positions of the names of a "storage" list that are loaded and
\* constructed.
OkNames(names) == {i \in 1..Len(names) : names[i].name = "ok"}

\* C14. Sink construction failures degrade: a site whose fetcher and parser
\* are created is not aborted at plugin loading whatever its sinks do, and
\* its sink instances are exactly the configured sinks that could be loaded
\* and constructed, in configuration order.
C14_SinkFailuresDegrade ==
    \A s \in Sites :
      (Loaded(s) /\ task[s].config.fetcher = "ok"
                 /\ task[s].config.parser = "ok")
        => LET names == task[s].config.storage
               sinks == task[s].storage_plugins
           IN  /\ task[s].fault # "load"
               /\ Len(sinks) = Cardinality(OkNames(names))
               /\ \A i \in OkNames(names) :
                    sinks[Cardinality({j \in OkNames(names) : j <= i})]
                      = names[i].class

\* C14 witness: a site whose first configured sink could not be constructed
\* is saving to its second one.
C14_Witness ==
    \E s \in Sites :
      /\ task[s].pc = "store"
      /\ Len(task[s].config.storage) = 2
      /\ task[s].config.storage[1].name = "ctor_raises"
      /\ task[s].config.storage[2].name = "ok"
      /\ task[s].storage_plugins = <<task[s].config.storage[2].class>>

\* C15. A fetcher never raises: every fetch call of AsyncHTTPXFetcher and
\* of ZendriverFetcher ends by returning a content triple or all-None,
\* whatever the configuration (proxy credentials, retry settings) and
\* whatever the attempts do.
C15_FetcherNeverRaises == fetching.pc # "raised"

\* C16. No store after a failed stage: for an entry URL (or self-directed
\* invocation) whose fetch gave no content, whose parse raised or gave
\* nothing, or whose transform raised or gave nothing, no save task exists
\* and no sink's save has been called; the continuation has ended.
C16_NoStoreAfterFailedStage ==
    \A s \in Sites :
      task[s].failed_stage # "none"
        => /\ task[s].saved = {}
           /\ ~task[s].data_to_store
           /\ task[s].pc \in {"url_done", "finishing"}

\* C16 witness: the transform of a site's second entry URL failed and
\* nothing was saved for it, after the first URL's data was stored.
C16_Witness ==
    \E s \in Sites :
      /\ task[s].pc = "url_done" /\ task[s].url = 2
      /\ task[s].failed_stage = "transform"
      /\ task[s].saved = {} /\ task[s].stored > 0

\* The latest committed flush had the same source and the same items as
\* the commit before it: the same record set was saved and flushed twice.
SavedTwice == sink.repeated /\ sink.last_commit.items # <<>>

\* The second flush added no rows to those the first one left.
NoRowsAdded ==
    \A id \in Ids :
      sink.before[id].status = "absent" <=> sink.table[id].status = "absent"

\* C17. Upsert idempotence: after the same record set was saved and flushed
\* twice, there is one row per business identifier as after the first
\* flush (the second added none), every row of the records with the same
\* field values as after the first flush.
C17_UpsertIdempotent ==
    SavedTwice
      => /\ NoRowsAdded
         /\ \A id \in Range(sink.last_commit.items) :
              sink.table[id] = sink.before[id]

\* C17 as amended: the same, the field values compared except for the
\* timestamp updated_at, which the second flush sets anew.
C17_UpsertIdempotentButTimestamps ==
    SavedTwice
      => /\ NoRowsAdded
         /\ \A id \in Range(sink.last_commit.items) :
              [sink.table[id] EXCEPT !.updated_at = 0]
                = [sink.before[id] EXCEPT !.updated_at = 0]

\* C17 witness: a record set was saved and flushed twice, and a row the
\* first flush left ACTIVE was upserted again by the second.
C17_Witness ==
    /\ SavedTwice
    /\ \E id \in Range(sink.last_commit.items) :
         /\ sink.before[id].status = "ACTIVE"
         /\ sink.table[id].status = "ACTIVE"
         /\ sink.table[id].updated_at > sink.before[id].updated_at

\* C18. Missing count tracks absence from the scrape: a stored record that
\* is among the records the sink accepted for its source in this run never
\* has its missing_count incremented by a flush of the run.
C18_MissingCountTracksAbsence ==
    \A id \in Ids :
      (/\ sink.before[id].status # "absent"
       /\ id \in sink.accepted_ids[sink.before[id].source])
        => sink.table[id].missing_count <= sink.before[id].missing_count


\* Two calls were made, on pairs that are equal after lowercasing and
\* trimming.
SameNormalizedPair ==
    /\ naming.previous # NoId
    /\ Normalized(naming.last.name) = Normalized(naming.previous.name)
    /\ Normalized(naming.last.address) = Normalized(naming.previous.address)

\* C19: the business identifier is a pure function of the normalized pair:
\* two calls of generate_business_id on (name, address) pairs that are equal
\* after lowercasing and trimming return the same identifier, whether they
\* are two calls of one copy or calls of two copies (of the transformers and
\* KfcParser).
C19_PureFunctionOfNormalizedPair ==
    SameNormalizedPair => naming.last.id = naming.previous.id

\* C20: two calls of generate_business_id on pairs that differ after
\* normalization (lowercase, trim) hash different strings.
C20_DistinctPairsDistinctStrings ==
    ( /\ naming.previous # NoId
      /\ naming.last.copy = naming.previous.copy
      /\ ~SameNormalizedPair )
    => naming.last.id.message # naming.previous.id.message

\* The site's configuration names no transformer.
NoTransformerConfigured(t) ==
    t.config # NoConfig /\ t.config.transformer = "absent"

\* C21: when no transformer is configured, the list passed to each sink's
\* save is exactly the list the parser returned, and for an entry URL that
\* produced data save is called exactly once per sink.
C21_RawPassThrough ==
    \A s \in Sites :
      NoTransformerConfigured(task[s]) =>
        /\ \A k \in DOMAIN task[s].save_args :
             \A i \in DOMAIN task[s].save_args[k] :
               task[s].save_args[k][i] = task[s].parsed_data
        /\ (task[s].url > 0 /\ task[s].data_to_store) =>
             \A k \in SinkIds(task[s]) : Len(task[s].save_args[k]) = 1

C21_Witness ==
    \E s \in Sites :
      /\ NoTransformerConfigured(task[s])
      /\ task[s].url > 0
      /\ Len(task[s].storage_plugins) = 2
      /\ task[s].saved = {1, 2}
      /\ Len(task[s].parsed_data) = 2
      /\ task[s].save_args[1] = <<task[s].parsed_data>>

\* C22: after JSONStorage.save of k records to a file that holds n lines
\* has returned, the file holds the n lines, unchanged, followed by the k
\* records in input order, one per line; with an empty list the file is
\* unchanged.
C22_SaveAppendsEveryRecord ==
    jsonfile.pc = "returned" =>
      jsonfile.lines = jsonfile.before \o JsonLines(jsonfile.data)

\* The stages of _scrape_url in the order of its code.
StageRank(stage) ==
    CASE stage = "fetch" -> 1
      [] stage = "parse" -> 2
      [] stage = "transform" -> 3
      [] stage = "save" -> 4
      [] stage = "close" -> 5

\* The call logged at position i has returned before position j.
ReturnedBefore(log, i, j) ==
    \E r \in 1..(j - 1) : log[r] = ReturnEvent(log[i].stage, log[i].sink)

\* C23: strict stage order within one entry URL: no stage is called before
\* fetch is, and when a plugin call of a stage is made every call of every
\* earlier stage (fetch, parse, transform, the saves, the closes, in this
\* order) has returned.
C23_StrictStageOrder ==
    \A s \in Sites :
      task[s].url > 0 =>
        LET log == task[s].log
        IN  /\ log # <<>> => log[1] = CallEvent("fetch", 0)
            /\ \A i, j \in DOMAIN log :
                 ( /\ log[i].ev = "call"
                   /\ log[j].ev = "call"
                   /\ StageRank(log[i].stage) < StageRank(log[j].stage) )
                 => ReturnedBefore(log, i, j)

\* C23 witness: an entry URL went through fetch, parse, transform, the
\* saves of two sinks and a close.
C23_Witness ==
    \E s \in Sites :
      /\ task[s].pc = "url_done" /\ task[s].url > 0
      /\ task[s].saved = {1, 2}
      /\ task[s].closed # {}
      /\ \E i \in DOMAIN task[s].log :
           task[s].log[i] = ReturnEvent("transform", 0)

\* The pipeline of an entry URL of the site is in progress and a later
\* entry URL has not been started.
UrlPending(s) ==
    /\ task[s].urls_running # {}
    /\ task[s].url < task[s].start_urls

C25_LockCoversEveryMutation ==
    sink.mutation.by # 0 => sink.mutation.holder = sink.mutation.by

\* C26: a sink survives close between URLs: after save, close, save, close
\* on one PostgresStorage instance, the second save having added records
\* and no flush of the last close having failed, the records of every save
\* are rows of the table and the buffer is empty.
C26_SinkSurvivesClose ==
    \A c \in Callers :
      ( /\ call[c].pc = "idle" /\ call[c].returned = "close"
        /\ call[c].failed = {}
        /\ sink.closes = 2 /\ sink.reopened )
      => \A src \in SourceNames :
           /\ sink.memory_buffer[src] = <<>>
           /\ sink.accepted_ids[src] \subseteq sink.db

\* C26 witness: the second close returned after flushing records that were
\* saved after the first close, and the table holds more than one row.
C26_Witness ==
    \E c \in Callers :
      /\ call[c].pc = "idle" /\ call[c].returned = "close"
      /\ call[c].failed = {}
      /\ sink.closes = 2 /\ sink.reopened
      /\ Cardinality(sink.db) >= 2
      /\ sink.last_commit.items # <<>>

FlushedSource == sink.last_commit.source
FlushedIds == Range(sink.last_commit.items)

\* The latest committed flush changed row id from ACTIVE to CLOSED.
Closes(id) ==
    /\ sink.before[id].status = "ACTIVE"
    /\ sink.table[id].status = "CLOSED"

\* Row id was an ACTIVE row of the flushed source, and at the end of the
\* flush its missing_count is at the threshold.
CountReachedThreshold(id) ==
    /\ sink.before[id].status = "ACTIVE"
    /\ sink.before[id].source = FlushedSource
    /\ sink.table[id].missing_count >= MissingThreshold

\* The parts of C28 that do not concern reappearing records: after a
\* committed flush, a row went from ACTIVE to CLOSED exactly if it was of
\* the flushed source and its missing_count has reached the threshold; no
\* ACTIVE row of the flushed source is at or above the threshold; the
\* missing_count of a row that was CLOSED has not grown.
ClosedTransition ==
    /\ \A id \in Ids : Closes(id) <=> CountReachedThreshold(id)
    /\ \A id \in Ids :
         (sink.table[id].status = "ACTIVE"
            /\ sink.table[id].source = FlushedSource)
           => sink.table[id].missing_count < MissingThreshold
    /\ \A id \in Ids :
         sink.before[id].status = "CLOSED"
           => sink.table[id].missing_count <= sink.before[id].missing_count

\* The record of row id, stored by an earlier flush, is among the items of
\* the latest committed flush.
Reappears(id) == id \in FlushedIds /\ sink.before[id].status # "absent"

\* C28. Closed-status transition: a row of a source changes from ACTIVE to
\* CLOSED exactly when, at the end of a flush for that source, its
\* missing_count has reached the threshold; after every successful flush no
\* ACTIVE row of the flushed source has missing_count at or above the
\* threshold, a CLOSED row's missing_count is no longer incremented, and a
\* record that reappears in a later flush is ACTIVE again with
\* missing_count 0.
C28_ClosedStatusTransition ==
    /\ ClosedTransition
    /\ \A id \in Ids :
         Reappears(id) => /\ sink.table[id].status = "ACTIVE"
                          /\ sink.table[id].missing_count = 0

\* C28 as amended: the same, except that a record that reappears in a later
\* flush is ACTIVE again with missing_count 0 unless that flush holds a
\* later item with the same name and address columns, in which case the
\* row is DUPLICATE and keeps its missing_count.
C28_ClosedStatusTransitionButDuplicates ==
    /\ ClosedTransition
    /\ \A id \in Ids :
         Reappears(id)
           => \/ /\ sink.table[id].status = "ACTIVE"
                 /\ sink.table[id].missing_count = 0
              \/ /\ sink.table[id].status = "DUPLICATE"
                 /\ sink.table[id].missing_count
                      = sink.before[id].missing_count
                 /\ \E other \in FlushedIds \ {id} :
                      LocationKey([business_id |-> other])
                        = LocationKey([business_id |-> id])

\* C28 witness: the latest committed flush closed an ACTIVE row whose count
\* reached the threshold, and made a CLOSED row that reappeared in it
\* ACTIVE with missing_count 0.
C28_Witness ==
    /\ \E id \in Ids : Closes(id) /\ CountReachedThreshold(id)
    /\ \E id \in Ids :
         /\ Reappears(id)
         /\ sink.before[id].status = "CLOSED"
         /\ sink.table[id].status = "ACTIVE"
         /\ sink.table[id].missing_count = 0

\* The fetch call has ended, by a return or by an exception.
FetchEnded == fetching.pc \in {"returned", "raised"}

\* The number of requests of a call of AsyncHTTPXFetcher is at most
\* max_retries + 1, and retries follow transport errors only.
BoundedRetry ==
    fetching.fetcher = "AsyncHTTPXFetcher"
      => /\ fetching.requests <= fetching.max_retries + 1
         /\ fetching.retried_after \subseteq {"transient_error"}

\* A call of AsyncHTTPXFetcher whose attempt ended with an HTTP status
\* error or an unexpected exception has returned (None, None, None).
StopsWithoutRetry ==
    (/\ fetching.fetcher = "AsyncHTTPXFetcher"
     /\ fetching.outcome \in {"status_error", "unexpected_error"})
      => fetching.pc = "returned" /\ fetching.result = "all_none"

\* C29. Bounded retry in the HTTP fetcher: for one fetch call with
\* max_retries = R, AsyncHTTPXFetcher issues at least one and at most R + 1
\* requests; it retries only after transport errors, stops at the first
\* HTTP status error or unexpected exception without retrying, and always
\* terminates, returning the first successful response or
\* (None, None, None).
C29_BoundedRetry ==
    /\ BoundedRetry
    /\ StopsWithoutRetry
    /\ fetching.fetcher = "AsyncHTTPXFetcher"
         => /\ FetchEnded => fetching.requests >= 1
            /\ fetching.pc # "raised"
            /\ fetching.pc = "returned"
                 => fetching.result
                      = IF fetching.outcome = "content"
                        THEN "content" ELSE "all_none"

\* The parse call has attempted every detail URL.
AllAttempted == parsing.attempted = 1..parsing.urls

\* C30. Parser-internal throttling: with parser option
\* max_concurrent_requests = M (M >= 1), NandosParser and ZeusParser never
\* have more than M detail-page fetches in flight at the same time, for any
\* number of detail URLs, and the parse call still terminates having
\* attempted every detail URL.
C30_ParserThrottling ==
    /\ [](parsing.parser \in ThrottledParsers
            => /\ InFlight(parsing) <= parsing.max_concurrent
               /\ parsing.peak <= parsing.max_concurrent
               /\ parsing.pc = "returned" => AllAttempted)
    /\ (parsing.pc # "idle") ~> (parsing.pc = "returned")

\* C30 witness: a parse call with more detail URLs than max_concurrent has
\* returned, all its URLs attempted, after max_concurrent fetches were in
\* flight together.
C30_Witness ==
    /\ parsing.pc = "returned"
    /\ parsing.urls > parsing.max_concurrent
    /\ AllAttempted
    /\ parsing.peak = parsing.max_concurrent
    /\ parsing.max_concurrent > 1

====
